---- MODULE Spec2Model ----
(***************************************************************************)
(* Model of sentry/api/endpoints/organization_discover_query.py:          *)
(* DiscoverQuerySerializer (request validation) and                        *)
(* OrganizationDiscoverQueryEndpoint (post, do_query, handle_results).     *)
(*                                                                         *)
(* Column names, orderby strings and string condition values are          *)
(* sequences of one-character strings, so that startswith, replace and    *)
(* the regular expressions are computed on characters.  A request body    *)
(* and the validated attrs are functions whose domain is the set of keys  *)
(* that are present (Python's dict; d.get(k) is None when k is absent).   *)
(* rollup and turbo are handed to the engine unread and are left out.     *)
(***************************************************************************)
EXTENDS Integers, Sequences, FiniteSets, TLC

VARIABLES
    pc,               \* the step of post() that runs next
    data,             \* request.DATA
    ctx,              \* feature flag, visible projects (id -> slug), member
    arrayjoin,        \* serializer.arrayjoin
    attrs,            \* serializer.object
    errors,           \* serializer.errors: field -> message
    now,              \* timezone.now()
    query,            \* the keyword arguments handed to the engine
    requested_query,  \* do_query's deepcopy of its keyword arguments
    path,             \* "paginated" or "single"
    engine_calls,     \* calls of snuba.transform_aliases_and_query
    snuba_results,    \* what the engine returned
    shaped,           \* calls of handle_results
    body,             \* the results of a 200 response
    status            \* the HTTP status of the response, 0 before it

vars == <<pc, data, ctx, arrayjoin, attrs, errors, now, query, requested_query,
          path, engine_calls, snuba_results, shaped, body, status>>

(***************************************************************************)
(* Bounds of the model.                                                    *)
(***************************************************************************)
MaxProject == 3   \* project ids are 1..MaxProject
MaxTime == 2      \* explicit start/end instants are 1..MaxTime
MaxDelta == 2     \* relative ranges parse to durations 1..MaxDelta
MaxDrift == 1     \* the clock may advance 0..MaxDrift between two readings
MaxRows == 1      \* the engine returns 0..MaxRows rows
MaxAggs == 2      \* requests carry 0..MaxAggs aggregations

(***************************************************************************)
(* Program constants.                                                      *)
(***************************************************************************)
MinLimit == 0
MaxLimit == 1000

(***************************************************************************)
(* Generic helpers for Python lists, sets and dicts.                       *)
(***************************************************************************)
Has(d, k) == k \in DOMAIN d

Put(d, k, v) == (k :> v) @@ d

Range(s) == {s[i] : i \in 1..Len(s)}

\* list.index(x) (1-based here); x must occur in s
IndexOf(s, x) == CHOOSE i \in 1..Len(s) : s[i] = x /\ \A j \in 1..(i-1) : s[j] /= x

\* list.remove(x): removes the first occurrence of x
Remove(s, x) ==
    LET i == IndexOf(s, x)
    IN  SubSeq(s, 1, i-1) \o SubSeq(s, i+1, Len(s))

\* list.insert(i, x) with a 0-based index i >= 0; an index past the end appends
Insert(s, i, x) ==
    LET k == IF i > Len(s) THEN Len(s) ELSE i
    IN  SubSeq(s, 1, k) \o <<x>> \o SubSeq(s, k+1, Len(s))

\* the orders in which a Python set may be iterated
Orderings(S) ==
    {s \in [1..Cardinality(S) -> S] : \A i, j \in 1..Cardinality(S) : s[i] = s[j] => i = j}

\* sep.join(s), as the sequence of the joined pieces
RECURSIVE Join(_, _)
Join(s, sep) ==
    IF Len(s) = 0 THEN <<>>
    ELSE IF Len(s) = 1 THEN <<s[1]>>
    ELSE <<s[1], sep>> \o Join(Tail(s), sep)

(***************************************************************************)
(* String literals of the source, as character sequences.                  *)
(***************************************************************************)
Dash == "-"
time == <<"t", "i", "m", "e">>
project_name == <<"p", "r", "o", "j", "e", "c", "t", "_", "n", "a", "m", "e">>
project_id == <<"p", "r", "o", "j", "e", "c", "t", "_", "i", "d">>
error == <<"e", "r", "r", "o", "r">>
stack == <<"s", "t", "a", "c", "k">>
has == <<"h", "a", "s">>
Quote == "'"

\* Python's None where the other values are character sequences (a regex
\* group is never the empty string, so <<>> is free to stand for None)
None == <<>>

(***************************************************************************)
(* JSON values of a condition carry their Python type: <<type, value>>.     *)
(***************************************************************************)
JBool(b) == <<"bool", b>>
JInt(n) == <<"int", n>>
JStr(s) == <<"str", s>>
JList(s) == <<"list", s>>
TypeOf(x) == x[1]
ValueOf(x) == x[2]

(***************************************************************************)
(* External collaborators.                                                 *)
(***************************************************************************)
\* A range string is <<>> (the empty string), <<"bogus">> (not a period) or
\* <<"period", n>> (a period of n time units).
\* sentry.utils.dates.parse_stats_period: the duration, or -1 for None
parse_stats_period(period) ==
    IF Len(period) = 2 /\ period[1] = "period" THEN period[2] ELSE -1

\* roles.get(member.role).is_global
is_global(member) == member.role_is_global

\* Project.objects.filter(organization=..., teams__in=<teams of member>)
member_project_list(member) == member.team_projects

(***************************************************************************)
(* DiscoverQuerySerializer                                                 *)
(***************************************************************************)
\* get_array_field: re.search(r"^(error|stack)\..+", field).  The match is
\* a record with group0, group1; matched = FALSE stands for None.  Column
\* names hold no line terminator, so ".+" runs to the end of the field and
\* group(0) is the whole field.
StartsWith(s, prefix) ==
    Len(s) >= Len(prefix) /\ SubSeq(s, 1, Len(prefix)) = prefix

get_array_field(field) ==
    IF StartsWith(field, error \o <<".">>) /\ Len(field) > Len(error) + 1
    THEN [matched |-> TRUE, group0 |-> field, group1 |-> error]
    ELSE IF StartsWith(field, stack \o <<".">>) /\ Len(field) > Len(stack) + 1
    THEN [matched |-> TRUE, group0 |-> field, group1 |-> stack]
    ELSE [matched |-> FALSE, group0 |-> None, group1 |-> None]

\* __init__: the group of the first array field among data['fields'], or None
RECURSIVE first_array_group(_)
first_array_group(fields) ==
    IF Len(fields) = 0 THEN None
    ELSE IF get_array_field(Head(fields)).matched
    THEN get_array_field(Head(fields)).group1
    ELSE first_array_group(Tail(fields))

serializer_init(d) ==
    LET fields == IF Has(d, "fields") THEN d["fields"] ELSE <<>>
        match == first_array_group(fields)
    IN  IF match /= None THEN match ELSE None

\* Field declarations (lines 34-66): the values that parse go to attrs,
\* aggregations defaults to [], projects is required (an empty list counts
\* as missing), limit must be in 0..1000.
FieldErrors(d) ==
    {f \in {"projects"} : ~Has(d, "projects") \/ d["projects"] = <<>>}
    \cup {f \in {"limit"} : Has(d, "limit")
                             /\ (d["limit"] < MinLimit \/ d["limit"] > MaxLimit)}

restore_fields(d) ==
    LET kept == [k \in DOMAIN d \ FieldErrors(d) |-> d[k]]
    IN  IF Has(kept, "aggregations") THEN kept ELSE Put(kept, "aggregations", <<>>)

\* range_rejected without the test that start and end come together
range_rejected_unpaired(has_start, has_end, has_range) ==
    has_range = has_start

\* line 98
range_rejected(has_start, has_end, has_range) ==
    has_start /= has_end \/ has_range = has_start

\* validate_range; t1 and t2 are the two readings of timezone.now().
\* The result is [err, attrs]; err = <<>> when nothing is raised.
validate_range(a, source, t1, t2) ==
    LET has_start == Has(a, "start")
        has_end == Has(a, "end")
        has_range == Has(a, "range") /\ a["range"] /= <<>>
    IN  IF range_rejected(has_start, has_end, has_range)
        THEN [err |-> <<"Either start and end dates or range is required">>, attrs |-> a]
        ELSE IF Has(a, source) /\ a[source] /= <<>>
        THEN LET delta == parse_stats_period(a[source])
             IN  IF delta = -1
                 THEN [err |-> <<"Invalid range">>, attrs |-> a]
                 ELSE [err |-> <<>>,
                       attrs |-> Put(Put(a, "start", t1 - delta), "end", t2)]
        ELSE [err |-> <<>>, attrs |-> a]

\* source.replace('-', '') if source.startswith('-') else source
strip_direction(source) ==
    IF Len(source) > 0 /\ source[1] = Dash
    THEN SelectSeq(source, LAMBDA c : c /= Dash)
    ELSE source

\* validate_orderby: TRUE when ValidationError is raised
orderby_rejected(a, source) ==
    IF Has(a, source) /\ a[source] /= <<>>
    THEN LET order_by == strip_direction(a[source])
             fields == IF Has(a, "fields") THEN a["fields"] ELSE <<>>
             has_aggs == Has(a, "aggregations") /\ Len(a["aggregations"]) > 0
             aliases == IF has_aggs THEN {agg[3] : agg \in Range(a["aggregations"])} ELSE {}
             aggregations == aliases \cup {time}
         IN  IF has_aggs /\ Len(fields) > 0
             THEN order_by \notin aggregations /\ order_by \notin Range(fields)
             ELSE IF has_aggs
             THEN order_by \notin aggregations
             ELSE IF Len(fields) > 0
             THEN order_by \notin Range(fields)
             ELSE FALSE
    ELSE FALSE

validate_orderby(a, source) ==
    IF orderby_rejected(a, source)
    THEN [err |-> <<"Invalid OrderBy - Must be in Fields or Aggregations">>, attrs |-> a]
    ELSE [err |-> <<>>, attrs |-> a]

\* has_projects_access granting access when any requested project is
\* reachable, instead of all of them
has_projects_access_any(member, requested_projects) ==
    IF is_global(member) THEN TRUE
    ELSE Range(requested_projects) \cap member_project_list(member) /= {}

\* has_projects_access
has_projects_access(member, requested_projects) ==
    IF is_global(member) THEN TRUE
    ELSE Range(requested_projects) \subseteq member_project_list(member)

\* validate_projects: TRUE when PermissionDenied is raised
validate_projects(a, source, c) ==
    LET projects == a[source]
        org_projects == DOMAIN c.projects
    IN  ~(Range(projects) \subseteq org_projects)
        \/ ~has_projects_access(c.member, projects)

\* get_condition with the polarity of the membership test swapped
get_condition_swapped(condition, aj) ==
    LET array_field == get_array_field(ValueOf(condition[1]))
        has_equality_operator == condition[2] \in {"=", "!="}
        value2 == IF TypeOf(condition[3]) = "bool"
                  THEN JInt(IF ValueOf(condition[3]) THEN 1 ELSE 0)
                  ELSE condition[3]
    IN  IF array_field.matched /\ has_equality_operator /\ array_field.group1 /= aj
        THEN LET value == IF TypeOf(value2) = "str"
                          THEN JStr(<<Quote>> \o ValueOf(value2) \o <<Quote>>)
                          ELSE value2
                 bool_value == IF condition[2] = "=" THEN 0 ELSE 1
             IN  <<JList(<<JStr(has), JList(<<JStr(array_field.group0), value>>)>>),
                   "=", JInt(bool_value)>>
        ELSE <<condition[1], condition[2], value2>>

\* get_condition
get_condition(condition, aj) ==
    LET array_field == get_array_field(ValueOf(condition[1]))
        has_equality_operator == condition[2] \in {"=", "!="}
        \* Cast boolean values to 1 / 0
        value2 == IF TypeOf(condition[3]) = "bool"
                  THEN JInt(IF ValueOf(condition[3]) THEN 1 ELSE 0)
                  ELSE condition[3]
    IN  IF array_field.matched /\ has_equality_operator /\ array_field.group1 /= aj
        THEN LET value == IF TypeOf(value2) = "str"
                          THEN JStr(<<Quote>> \o ValueOf(value2) \o <<Quote>>)
                          ELSE value2
                 bool_value == IF condition[2] = "=" THEN 1 ELSE 0
             IN  <<JList(<<JStr(has), JList(<<JStr(array_field.group0), value>>)>>),
                   "=", JInt(bool_value)>>
        ELSE <<condition[1], condition[2], value2>>

\* validate_conditions
validate_conditions(a, source, aj) ==
    IF Has(a, source) /\ Len(a[source]) > 0
    THEN Put(a, source, [i \in 1..Len(a[source]) |-> get_condition(a[source][i], aj)])
    ELSE a

\* validate_aggregations; order is the iteration order of the set of
\* invalid functions
valid_functions == {"count()", "uniq", "avg"}

requested_functions(a, source) == {agg[1] : agg \in Range(a[source])}

\* validate_aggregations reporting only the first invalid function
validate_aggregations_first(a, source, order) ==
    IF ~(requested_functions(a, source) \subseteq valid_functions)
    THEN [err |-> <<"Invalid aggregate function - ", order[1]>>, attrs |-> a]
    ELSE [err |-> <<>>, attrs |-> a]

validate_aggregations(a, source, order) ==
    IF ~(requested_functions(a, source) \subseteq valid_functions)
    THEN [err |-> <<"Invalid aggregate function - ">> \o Join(order, ", "), attrs |-> a]
    ELSE [err |-> <<>>, attrs |-> a]

(***************************************************************************)
(* OrganizationDiscoverQueryEndpoint                                       *)
(***************************************************************************)
\* A Snuba type is the sequence of its wrappers and its base type:
\* "Nullable(Array(String))" is <<"Nullable", "Array", "String">>.
json_types ==
    ("UInt8" :> "boolean") @@ ("UInt16" :> "integer") @@ ("UInt32" :> "integer") @@
    ("UInt64" :> "integer") @@ ("Float32" :> "number") @@ ("Float64" :> "number")

get_json_type(snuba_type) ==
    LET unwrapped == IF Len(snuba_type) > 1 /\ snuba_type[1] = "Nullable"
                     THEN Tail(snuba_type) ELSE snuba_type
    IN  IF Len(unwrapped) > 1 /\ unwrapped[1] = "Array" THEN "array"
        ELSE IF Len(unwrapped) = 1 /\ unwrapped[1] \in DOMAIN json_types
        THEN json_types[unwrapped[1]]
        ELSE "string"

\* post, lines 339-373: the keyword arguments of do_query.  A key whose
\* value is None is left out of the function (selected_columns is None when
\* there are no aggregations and fields was not sent).
RECURSIVE append_missing(_, _)
append_missing(groupby, fields) ==
    IF Len(fields) = 0 THEN groupby
    ELSE append_missing(IF Head(fields) \in Range(groupby) THEN groupby
                        ELSE Append(groupby, Head(fields)),
                        Tail(fields))

post_kwargs(serialized) ==
    LET has_aggregations == Len(serialized["aggregations"]) > 0
        groupby0 == IF Has(serialized, "groupby") THEN serialized["groupby"] ELSE <<>>
        fields == IF Has(serialized, "fields") THEN serialized["fields"] ELSE <<>>
        groupby == IF has_aggregations THEN append_missing(groupby0, fields) ELSE groupby0
        selected == IF has_aggregations THEN ("selected_columns" :> <<>>)
                    ELSE IF Has(serialized, "fields")
                    THEN ("selected_columns" :> serialized["fields"])
                    ELSE <<>>
        passed == {"start", "end", "conditions", "orderby", "limit", "aggregations",
                   "arrayjoin"} \cap DOMAIN serialized
    IN  selected @@ ("groupby" :> groupby)
        @@ ("filter_keys" :> serialized["projects"])
        @@ [k \in passed |-> serialized[k]]

\* do_query, lines 284-292: project_name is replaced by project_id
substitute(columns) ==
    IF project_name \in Range(columns)
    THEN LET removed == Remove(columns, project_name)
         IN  IF project_id \notin Range(removed) THEN Append(removed, project_id)
             ELSE removed
    ELSE columns

\* do_query, lines 281-296: the query handed to the engine
physical_query(kwargs) ==
    Put(Put(Put(kwargs,
        "selected_columns", substitute(kwargs["selected_columns"])),
        "groupby", substitute(kwargs["groupby"])),
        "aggregations",
        [i \in 1..Len(kwargs["aggregations"]) |->
            LET aggregation == kwargs["aggregations"][i]
            IN  IF aggregation[2] = project_name
                THEN <<aggregation[1], project_id, aggregation[3]>>
                ELSE aggregation])

\* handle_results, lines 242-255 and again 257-270, for one of
\* selected_columns / groupby.  raised = TRUE is the KeyError of line 253.
project_name_meta == [name |-> project_name, type |-> <<"String">>]

reshape(results, columns, projects) ==
    IF project_name \in Range(columns)
    THEN LET project_name_index == IndexOf(columns, project_name) - 1
             inserted == Insert(results.meta, project_name_index, project_name_meta)
             keep_id == project_id \in Range(columns)
             meta == IF keep_id THEN inserted
                     ELSE SelectSeq(inserted, LAMBDA field : field.name /= project_id)
             bad(row) == ~Has(row, project_id) \/ ~Has(projects, row[project_id])
             named(row) == Put(row, project_name, projects[row[project_id]])
             shape(row) == IF keep_id THEN named(row)
                           ELSE [c \in DOMAIN named(row) \ {project_id} |-> named(row)[c]]
         IN  IF \E i \in 1..Len(results.data) : bad(results.data[i])
             THEN [raised |-> TRUE, meta |-> meta, data |-> results.data]
             ELSE [raised |-> FALSE, meta |-> meta,
                   data |-> [i \in 1..Len(results.data) |-> shape(results.data[i])]]
    ELSE [raised |-> FALSE, meta |-> results.meta, data |-> results.data]

handle_results(results, requested, projects) ==
    LET first == reshape(results, requested["selected_columns"], projects)
        second == IF first.raised THEN first
                  ELSE reshape(first, requested["groupby"], projects)
    IN  [raised |-> second.raised,
         meta |-> [i \in 1..Len(second.meta) |->
                     [name |-> second.meta[i].name,
                      type |-> get_json_type(second.meta[i].type)]],
         data |-> second.data]

\* snuba.transform_aliases_and_query: the columns of the result are the
\* group-by columns, the aggregation aliases and the selected columns; every
\* row carries one of the projects of the filter in project_id.
RECURSIVE Dedup(_)
Dedup(s) ==
    IF Len(s) = 0 THEN <<>>
    ELSE LET front == Dedup(SubSeq(s, 1, Len(s) - 1))
         IN  IF s[Len(s)] \in Range(front) THEN front ELSE Append(front, s[Len(s)])

engine_columns(q) ==
    Dedup(q["groupby"]
          \o [i \in 1..Len(q["aggregations"]) |-> q["aggregations"][i][3]]
          \o q["selected_columns"])

engine_type(q, column) ==
    IF column = project_id THEN <<"UInt64">>
    ELSE IF \E i \in 1..Len(q["aggregations"]) : q["aggregations"][i][3] = column
    THEN <<"UInt64">>
    ELSE IF get_array_field(column).matched THEN <<"Nullable", "Array", "String">>
    ELSE <<"Nullable", "String">>

engine_row(q, p) ==
    [c \in Range(engine_columns(q)) |-> IF c = project_id THEN p ELSE 0]

engine_results(q) ==
    LET columns == engine_columns(q)
        meta == [i \in 1..Len(columns) |->
                    [name |-> columns[i], type |-> engine_type(q, columns[i])]]
        rows == {engine_row(q, p) : p \in Range(q["filter_keys"])}
    IN  {[meta |-> meta, data |-> d] :
            d \in UNION {[1..n -> rows] : n \in 0..MaxRows}}

(***************************************************************************)
(* Requests and access contexts.                                           *)
(***************************************************************************)
Projects == 1..MaxProject

Slug(p) == <<"slug", p>>

Context(feature, visible, global, team_projects) ==
    [feature |-> feature,
     projects |-> [p \in visible |-> Slug(p)],
     member |-> [role_is_global |-> global, team_projects |-> team_projects]]

DefaultContext == Context(TRUE, Projects, TRUE, {})

\* the requests that send key k with a value of S, or do not send it
Optional(k, S) == {<<>>} \cup {k :> v : v \in S}

Lists(S, n) == UNION {[1..m -> S] : m \in 0..n}

DistinctLists(S, n) == {s \in Lists(S, n) : \A i, j \in 1..Len(s) : s[i] = s[j] => i = j}

col_a == <<"a">>
col_ab == <<"a", "b">>
col_a_b == <<"a", "-", "b">>
col_dash_a == <<"-", "a">>
error_type == error \o <<".", "t">>
error_dot == error \o <<".">>
stack_line == stack \o <<".", "l">>
hits == <<"h">>

Periods == {<<"period", n>> : n \in 1..MaxDelta}

BaseRequest == [projects |-> <<1>>, range |-> <<"period", 1>>]

\* project access
AccessInputs ==
    {<<Put(BaseRequest, "projects", ps) @@ ("fields" :> <<col_a>>),
       Context(TRUE, visible, global, team)>> :
        ps \in Lists(Projects, 2), visible \in SUBSET Projects,
        global \in BOOLEAN, team \in SUBSET Projects}
    \cup {<<BaseRequest, Context(FALSE, Projects, TRUE, {})>>}

\* time range
RangeInputs ==
    {<<[projects |-> <<1>>, fields |-> <<col_a>>] @@ s @@ e @@ r, DefaultContext>> :
        s \in Optional("start", 1..MaxTime), e \in Optional("end", 1..MaxTime),
        r \in Optional("range", {<<>>, <<"bogus">>} \cup Periods)}

\* orderby
OrderColumns == {col_a, col_ab, col_a_b, col_dash_a, time, hits}

OrderInputs ==
    {<<BaseRequest @@ f @@ o @@ ("aggregations" :> aggs), DefaultContext>> :
        f \in Optional("fields", {<<>>} \cup {<<c>> : c \in OrderColumns \ {hits}}),
        o \in Optional("orderby", OrderColumns \cup {<<Dash>> \o c : c \in OrderColumns}),
        aggs \in {<<>>, <<<<"count()", col_a, hits>>>>}}

\* conditions
ConditionColumns == {error_type, error_dot, stack_line, col_a}

ConditionValues ==
    {JBool(TRUE), JBool(FALSE), JInt(0), JInt(5), JStr(<<"x">>), JStr(<<>>)}

ConditionInputs ==
    {<<BaseRequest @@ f @@ ("conditions" :> <<<<JStr(c), op, v>>>>), DefaultContext>> :
        f \in Optional("fields", {<<col_a>>, <<error_type>>, <<col_a, stack_line>>,
                                  <<stack_line, error_type>>, <<error_dot, stack_line>>}),
        c \in ConditionColumns, op \in {"=", "!=", ">"}, v \in ConditionValues}
    \cup {<<BaseRequest @@ ("fields" :> <<stack_line>>)
            @@ ("conditions" :> <<<<JStr(error_type), "=", JBool(TRUE)>>,
                                  <<JStr(stack_line), "!=", JStr(<<"x">>)>>>>),
            DefaultContext>>}

\* aggregations
Functions == {"count()", "uniq", "avg", "count", "sum"}

AggregationInputs ==
    {<<BaseRequest @@ ("aggregations" :> [i \in 1..Len(fs) |-> <<fs[i], col_a, hits>>]),
       DefaultContext>> : fs \in Lists(Functions, MaxAggs)}

\* execution mode and the project_name column
QueryInputs ==
    {<<[projects |-> ps, range |-> <<"period", 1>>] @@ f @@ g @@ l
        @@ ("aggregations" :> aggs), DefaultContext>> :
        ps \in {<<1>>, <<1, 2>>},
        f \in Optional("fields", DistinctLists({project_name, project_id, col_a}, 3)),
        g \in Optional("groupby", {<<project_name>>, <<col_a>>, <<project_id>>,
                                   <<col_a, project_name>>}),
        l \in Optional("limit", {MinLimit, MaxLimit, MaxLimit + 1}),
        aggs \in {<<>>, <<<<"count()", col_a, hits>>>>,
                  <<<<"uniq", project_name, hits>>>>}}

Inputs ==
    AccessInputs \cup RangeInputs \cup OrderInputs \cup ConditionInputs
    \cup AggregationInputs \cup QueryInputs

(***************************************************************************)
(* The state machine of one request.                                       *)
(***************************************************************************)
Init ==
    /\ \E input \in Inputs : data = input[1] /\ ctx = input[2]
    /\ pc = "post"
    /\ arrayjoin = None
    /\ attrs = <<>>
    /\ errors = <<>>
    /\ now = MaxTime + MaxDelta
    /\ query = <<>>
    /\ requested_query = <<>>
    /\ path = "none"
    /\ engine_calls = 0
    /\ snuba_results = [meta |-> <<>>, data |-> <<>>]
    /\ shaped = 0
    /\ body = [meta |-> <<>>, data |-> <<>>]
    /\ status = 0

\* post, lines 324-334: the feature gate, then the serializer is built
Post ==
    /\ pc = "post"
    /\ IF ~ctx.feature
       THEN /\ status' = 404
            /\ pc' = "done"
            /\ UNCHANGED arrayjoin
       ELSE /\ arrayjoin' = serializer_init(data)
            /\ pc' = "is_valid"
            /\ UNCHANGED status
    /\ UNCHANGED <<data, ctx, attrs, errors, now, query, requested_query, path,
                   engine_calls, snuba_results, shaped, body>>

\* serializer.is_valid(), line 336: the fields are parsed, then
\* validate_projects, validate_range, validate_orderby, validate_conditions
\* and validate_aggregations run in the order of the field declarations and
\* their ValidationErrors are collected (the validator of a field that did
\* not parse is skipped); PermissionDenied is not collected; validate() runs
\* when nothing was collected.
IsValid ==
    /\ pc = "is_valid"
    /\ LET a0 == restore_fields(data)
       IN  IF "projects" \notin FieldErrors(data) /\ validate_projects(a0, "projects", ctx)
           THEN /\ status' = 403
                /\ pc' = "done"
                /\ UNCHANGED <<attrs, errors, now>>
           ELSE \E t2 \in now..(now + MaxDrift) :
                \E order \in Orderings(requested_functions(a0, "aggregations")
                                       \ valid_functions) :
                LET r1 == validate_range(a0, "range", now, t2)
                    r2 == validate_orderby(r1.attrs, "orderby")
                    a3 == validate_conditions(r2.attrs, "conditions", arrayjoin)
                    r4 == validate_aggregations(a3, "aggregations", order)
                    raised == {f \in {"range"} : r1.err /= <<>>}
                              \cup {f \in {"orderby"} : r2.err /= <<>>}
                              \cup {f \in {"aggregations"} : r4.err /= <<>>}
                    collected ==
                        [f \in FieldErrors(data) \cup raised |->
                            IF f = "range" THEN r1.err
                            ELSE IF f = "orderby" THEN r2.err
                            ELSE IF f = "aggregations" THEN r4.err
                            ELSE IF f = "projects" THEN <<"This field is required.">>
                            ELSE <<"Ensure this value is within the limits.">>]
                IN  /\ now' = IF r1.attrs /= a0 THEN t2 ELSE now
                    /\ errors' = collected
                    /\ IF DOMAIN collected /= {}
                       THEN /\ status' = 400
                            /\ pc' = "done"
                            /\ UNCHANGED attrs
                       ELSE /\ attrs' = Put(r4.attrs, "arrayjoin", arrayjoin)
                            /\ pc' = "do_query"
                            /\ UNCHANGED status
    /\ UNCHANGED <<data, ctx, arrayjoin, query, requested_query, path,
                   engine_calls, snuba_results, shaped, body>>

\* post, lines 339-373, and do_query, lines 279-298.  `in None` at line 284
\* raises TypeError, which the framework answers with status 500.
DoQuery ==
    /\ pc = "do_query"
    /\ LET kwargs == post_kwargs(attrs)
       IN  IF ~Has(kwargs, "selected_columns")
           THEN /\ status' = 500
                /\ pc' = "done"
                /\ UNCHANGED <<query, requested_query, path>>
           ELSE /\ requested_query' = kwargs
                /\ query' = physical_query(kwargs)
                /\ path' = IF Len(kwargs["aggregations"]) = 0 THEN "paginated"
                           ELSE "single"
                /\ pc' = "query"
                /\ UNCHANGED status
    /\ UNCHANGED <<data, ctx, arrayjoin, attrs, errors, now, engine_calls,
                   snuba_results, shaped, body>>

\* snuba.transform_aliases_and_query, called at line 312 or, through the
\* paginator's data_fn, for the page of this request
Query ==
    /\ pc = "query"
    /\ \E results \in engine_results(query) : snuba_results' = results
    /\ engine_calls' = engine_calls + 1
    /\ pc' = "handle_results"
    /\ UNCHANGED <<data, ctx, arrayjoin, attrs, errors, now, query,
                   requested_query, path, shaped, body, status>>

\* handle_results, called at line 316 or as the paginator's on_results
HandleResults ==
    /\ pc = "handle_results"
    /\ LET shaped_results == handle_results(snuba_results, requested_query, ctx.projects)
       IN  /\ shaped' = shaped + 1
           /\ IF shaped_results.raised
              THEN status' = 500 /\ UNCHANGED body
              ELSE /\ status' = 200
                   /\ body' = [meta |-> shaped_results.meta, data |-> shaped_results.data]
    /\ pc' = "done"
    /\ UNCHANGED <<data, ctx, arrayjoin, attrs, errors, now, query,
                   requested_query, path, engine_calls, snuba_results>>

Next == Post \/ IsValid \/ DoQuery \/ Query \/ HandleResults

Spec == Init /\ [][Next]_vars

(***************************************************************************)
(* Properties.                                                             *)
(***************************************************************************)
\* is_valid() has returned (or raised) for a request that passed the gate
Decided == pc \notin {"post", "is_valid"} /\ status /= 404

\* is_valid() returned True
Validated == DOMAIN attrs /= {}

\* the request sends key k with a non-empty value
Sent(k) == Has(data, k) /\ data[k] /= <<>>

RequestedFields == IF Has(data, "fields") THEN data["fields"] ELSE <<>>

RequestedAggregations == IF Has(data, "aggregations") THEN data["aggregations"] ELSE <<>>

\* C1: a request is accepted by validate_projects exactly when its projects
\* are all visible in the organization and (the member's role is global or
\* they are all reachable through the member's teams); otherwise the answer
\* is PermissionDenied (403) and the engine is never called; an accepted
\* request's project filter is exactly the requested list.
C1_AllOrNothing ==
    LET requested == Range(data["projects"])
        allowed == /\ requested \subseteq DOMAIN ctx.projects
                   /\ \/ ctx.member.role_is_global
                      \/ requested \subseteq ctx.member.team_projects
    IN  Decided =>
          /\ (status = 403) <=> ~allowed
          /\ ~allowed => pc = "done" /\ engine_calls = 0 /\ ~Validated
          /\ engine_calls > 0 => query["filter_keys"] = data["projects"]

\* teams -> {1,2}: [1,3] is denied although 1 alone is allowed
C1_Witness ==
    /\ status = 403
    /\ data["projects"] = <<1, 3>>
    /\ DOMAIN ctx.projects = Projects
    /\ ~ctx.member.role_is_global
    /\ ctx.member.team_projects = {1, 2}

\* C2: validate_range accepts only (start and end present, range absent) or
\* (range present, start and end absent); every other combination yields
\* the ValidationError of the range field, status 400 and no engine call.
C2_RangeExclusive ==
    LET s == Has(data, "start")
        e == Has(data, "end")
        r == Sent("range")
        well_formed == (s /\ e /\ ~r) \/ (r /\ ~s /\ ~e)
    IN  (Decided /\ status /= 403) =>
          /\ ~Has(errors, "range") => well_formed
          /\ ~well_formed =>
                /\ Has(errors, "range")
                /\ status = 400 /\ pc = "done" /\ engine_calls = 0 /\ ~Validated

\* only start is sent
C2_Witness ==
    /\ status = 400
    /\ Has(data, "start") /\ ~Has(data, "end") /\ ~Has(data, "range")
    /\ Has(errors, "range")

\* C3: no query reaches the engine with an orderby whose column (the
\* orderby without its direction marker) is not one of the requested fields
\* nor, when aggregations are present, an aggregation alias or "time".
C3_OrderbyVisible ==
    LET column == IF data["orderby"][1] = Dash THEN Tail(data["orderby"])
                  ELSE data["orderby"]
        aliases == {agg[3] : agg \in Range(RequestedAggregations)}
        visible == Range(RequestedFields)
                   \cup (IF aliases /= {} THEN aliases \cup {time} ELSE {})
    IN  (engine_calls > 0 /\ Sent("orderby")) => column \in visible

\* C4: orderby "-" + c is accepted exactly when orderby c is accepted, for
\* the same fields and aggregations.
C4_DirectionOnly ==
    (Decided /\ status /= 403 /\ Sent("orderby") /\ data["orderby"][1] = Dash) =>
        (Has(errors, "orderby") <=>
            orderby_rejected(Put(restore_fields(data), "orderby", Tail(data["orderby"])),
                             "orderby"))

\* C5: when fields contain project_name the response has exactly one
\* project_name descriptor, at the position project_name had among the
\* requested columns, every row carries the name of its project, and
\* project_id is in meta/data only if it was requested.
C5_RoundTrip ==
    LET columns == IF Len(RequestedAggregations) = 0 THEN requested_query["selected_columns"]
                   ELSE requested_query["groupby"]
        names == [i \in 1..Len(body.meta) |-> body.meta[i].name]
        asked_id == project_id \in Range(RequestedFields)
                    \/ (Has(data, "groupby") /\ project_id \in Range(data["groupby"]))
    IN  (pc = "done" /\ shaped > 0 /\ project_name \in Range(RequestedFields)) =>
          /\ status = 200
          /\ Cardinality({i \in 1..Len(names) : names[i] = project_name}) = 1
          /\ \A f \in Range(columns) \cap Range(names) :
                (IndexOf(columns, f) < IndexOf(columns, project_name))
                    <=> (IndexOf(names, f) < IndexOf(names, project_name))
          /\ Len(body.data) = Len(snuba_results.data)
          /\ \A i \in 1..Len(body.data) :
                /\ Has(body.data[i], project_name)
                /\ body.data[i][project_name]
                     = ctx.projects[snuba_results.data[i][project_id]]
                /\ Has(body.data[i], project_id) => asked_id
          /\ project_id \in Range(names) => asked_id

\* C6: a condition on a nested-array column with operator = or != whose
\* group differs from the resolved arrayjoin (the group of the first array
\* field among the requested fields, or none) is rewritten to
\* [['has', [column, v]], '=', b], b = 1 for '=' and 0 for '!=', v the value
\* with booleans coerced to 1/0 and strings wrapped in single quotes.
C6_MembershipTest ==
    LET array_fields == {i \in 1..Len(RequestedFields) :
                            get_array_field(RequestedFields[i]).matched}
        first == CHOOSE i \in array_fields : \A j \in array_fields : i <= j
        resolved == IF array_fields = {} THEN None
                    ELSE get_array_field(RequestedFields[first]).group1
        expected(c) ==
            LET v == IF TypeOf(c[3]) = "bool"
                     THEN JInt(IF ValueOf(c[3]) THEN 1 ELSE 0)
                     ELSE IF TypeOf(c[3]) = "str"
                     THEN JStr(<<Quote>> \o ValueOf(c[3]) \o <<Quote>>)
                     ELSE c[3]
            IN  <<JList(<<JStr(has), JList(<<c[1], v>>)>>), "=",
                  JInt(IF c[2] = "=" THEN 1 ELSE 0)>>
    IN  (Validated /\ Has(data, "conditions")) =>
          /\ arrayjoin = resolved
          /\ \A i \in 1..Len(data["conditions"]) :
                LET c == data["conditions"][i]
                    m == get_array_field(ValueOf(c[1]))
                IN  (m.matched /\ c[2] \in {"=", "!="} /\ m.group1 /= resolved)
                        => attrs["conditions"][i] = expected(c)

\* error.t != True with arrayjoin stack: has(error.t, 1) = 0
C6_Witness ==
    /\ Validated
    /\ Has(data, "conditions")
    /\ data["conditions"][1] = <<JStr(error_type), "!=", JBool(TRUE)>>
    /\ arrayjoin = stack
    /\ attrs["conditions"][1]
         = <<JList(<<JStr(has), JList(<<JStr(error_type), JInt(1)>>)>>), "=", JInt(0)>>

\* C7: a validated request with empty aggregations is executed through the
\* paginated path; one with aggregations makes exactly one engine call and
\* passes its result through handle_results exactly once.
C7_ModeByAggregations ==
    (pc = "done" /\ Validated) =>
        IF Len(RequestedAggregations) = 0
        THEN path = "paginated" /\ engine_calls >= 1
        ELSE path = "single" /\ engine_calls = 1 /\ shaped = 1

\* C8: validate_aggregations accepts iff every function is one of count(),
\* uniq, avg; otherwise the message lists every distinct invalid function
\* of the request and no valid one.
C8_InvalidFunctionsListed ==
    LET requested == {agg[1] : agg \in Range(RequestedAggregations)}
        invalid == requested \ {"count()", "uniq", "avg"}
        message == errors["aggregations"]
        listed == Range(Tail(message)) \ {", "}
    IN  (Decided /\ status /= 403) =>
          /\ Has(errors, "aggregations") <=> invalid /= {}
          /\ invalid /= {} =>
                /\ status = 400 /\ engine_calls = 0
                /\ message[1] = "Invalid aggregate function - "
                /\ listed = invalid
                /\ Len(message) = 2 * Cardinality(invalid)

\* two invalid functions, both listed
C8_Witness ==
    /\ status = 400
    /\ Has(errors, "aggregations")
    /\ {agg[1] : agg \in Range(RequestedAggregations)} = {"count", "sum"}
    /\ Len(errors["aggregations"]) = 4

\* C9: every query handed to the engine has start and end, start < end.
C9_WindowOrdered ==
    engine_calls > 0 =>
        /\ Has(query, "start") /\ Has(query, "end")
        /\ query["start"] < query["end"]

\* C10: a resolved relative range of duration d has end - start = d.
C10_SameInstant ==
    (Validated /\ Sent("range")) =>
        attrs["end"] - attrs["start"] = parse_stats_period(data["range"])

====
